---- MODULE Spec2Model ----
(***************************************************************************)
(* git-pages-cli: the directory upload with incremental negotiation.       *)
(*                                                                         *)
(* The model follows the latest revision of the program, the second Go     *)
(* file of src/unnamed/part_004 (lines 226-648): archiveFS,                *)
(* streamArchiveFS, makeWhiteout and main with its resubmission loop.      *)
(* Strings are sequences of one-character strings, so that concatenation   *)
(* and trimming are computed.  File contents are records [len, fill]: len  *)
(* bytes, all of value fill.  The Go library (io/fs, archive/tar, zstd,    *)
(* io.Pipe, net/http) and the server are the environment.                  *)
(***************************************************************************)
EXTENDS Integers, Sequences, FiniteSets, TLC

(***************************************************************************)
(* Bounds of the exploration.                                              *)
(***************************************************************************)
\* The most rounds of one run: the server asks to resubmit in all but the last.
MaxRounds == 3
\* The most archive entries the compression layer holds back before the
\* producer blocks on the pipe.
ZstdWindow == 2
\* The most characters of a value of --path, where all values are tried.
MaxPathLen == 3

(***************************************************************************)
(* The state of one invocation.                                            *)
(***************************************************************************)
VARIABLES
    flags,      \* the command line, after pflag.Parse and the usage checks
    fsys,       \* the directory of --upload-dir: whether it opens, and its tree
    limit,      \* the number of requests after which the server stops answering 422
    pc,         \* where main is
    uploadDir,  \* main's uploadDir: "nil" or "root"
    request,    \* main's request
    nBuilt,     \* the number of calls of streamArchiveFS so far
    round,      \* the number of calls of http.DefaultClient.Do so far
    stream,     \* the arguments of the latest call of streamArchiveFS
    prod,       \* the goroutine of the latest call of streamArchiveFS
    written,    \* the entries it has written to the tar writer
    consumed,   \* how many of them the transport has read from the pipe
    pipeW,      \* the write end of the pipe: "open", "eof" or "err"
    sawEnd,     \* what the transport has read at the end of the body: "no", "eof", "err"
    orphans,    \* goroutines of earlier calls that still run
    response,   \* the response Do returned last
    out,        \* what main reported at its end
    prevNeed,   \* the needBlobs of the stream before the latest one
    firstReq,   \* the request as first handed to Do
    walkFailed  \* whether the goroutine of the latest stream had archiveFS fail on the tree

vars == <<flags, fsys, limit, pc, uploadDir, request, nBuilt, round, stream, prod,
          written, consumed, pipeW, sawEnd, orphans, response, out, prevNeed,
          firstReq, walkFailed>>

(***************************************************************************)
(* Strings.                                                                *)
(***************************************************************************)
Slash == "/"

\* strings.Trim(s, "/"): the leading and trailing slashes removed.
RECURSIVE TrimLeft(_)
TrimLeft(s) ==
    IF s # <<>> /\ Head(s) = Slash THEN TrimLeft(Tail(s)) ELSE s

RECURSIVE TrimRight(_)
TrimRight(s) ==
    IF s # <<>> /\ s[Len(s)] = Slash
    THEN TrimRight(SubSeq(s, 1, Len(s) - 1))
    ELSE s

Trim(s) == TrimRight(TrimLeft(s))

\* A prefix that loses only the slashes at the end of --path.
PathPrefixTrimRight(pathFlag) ==
    IF pathFlag # <<>> THEN TrimRight(pathFlag) \o <<Slash>> ELSE <<>>

\* pathPrefix as main derives it from --path.
PathPrefixOf(pathFlag) ==
    IF pathFlag # <<>> THEN Trim(pathFlag) \o <<Slash>> ELSE <<>>

(***************************************************************************)
(* File contents and the content hash.                                     *)
(***************************************************************************)
incrementalSizeThreshold == 256

D256  == [len |-> 256, fill |-> 1]
D257a == [len |-> 257, fill |-> 1]
D257b == [len |-> 257, fill |-> 2]
NoData == [len |-> 0, fill |-> 0]
Datas == {D256, D257a, D257b}

\* SHA-256 over "blob " + decimal(len) + NUL + data, hex encoded: a function
\* of the bytes alone, without collisions.
gitBlobSHA256(data) == <<"sha256:", ToString(data.len), ToString(data.fill)>>

\* The hash of a content no file of the modelled trees has.
HashX == gitBlobSHA256([len |-> 300, fill |-> 9])

(***************************************************************************)
(* The upload tree.  A tree maps each path of the universe to a node.      *)
(***************************************************************************)
RootPath == <<".">>
PA  == <<"a">>
PAB == <<"a", "/", "b">>
PC  == <<"c">>
NodePaths == {PA, PAB, PC}

\* The permission bits of a node, as ls prints them.
PermFile == "rw-r--r--"
PermExec == "rwxr-xr-x"

Absent      == [kind |-> "absent",  data |-> NoData, target |-> <<>>, ok |-> TRUE,
                perm |-> ""]
DirNode(ok) == [kind |-> "dir",     data |-> NoData, target |-> <<>>, ok |-> ok,
                perm |-> PermExec]
FileNode(d, ok) == [kind |-> "file", data |-> d,     target |-> <<>>, ok |-> ok,
                    perm |-> PermFile]
\* A readable file with the executable bits set.
ExecNode(d) == [FileNode(d, TRUE) EXCEPT !.perm = PermExec]
LinkNode(t, ok) == [kind |-> "symlink", data |-> NoData, target |-> t, ok |-> ok,
                    perm |-> PermExec]
\* A device, socket or FIFO.
OtherNode   == [kind |-> "other",   data |-> NoData, target |-> <<>>, ok |-> TRUE,
                perm |-> PermFile]

LinkTarget == <<"c">>

NodeOptions ==
    {Absent, DirNode(TRUE), DirNode(FALSE), OtherNode, LinkNode(LinkTarget, TRUE),
     FileNode(D256, FALSE)}
    \cup {FileNode(d, TRUE) : d \in Datas}

EmptyTree == [p \in NodePaths |-> Absent]

\* The parent directory of a path ("." for a top-level name).
ParentOf(p) == IF Len(p) = 1 THEN RootPath ELSE SubSeq(p, 1, Len(p) - 2)

BaseName(p) == p[Len(p)]

KindAt(tree, p) == IF p = RootPath THEN "dir" ELSE tree[p].kind

\* A child exists only in a directory that exists and can be listed.
WellFormed(tree) ==
    \A p \in NodePaths :
        tree[p].kind # "absent" =>
            /\ KindAt(tree, ParentOf(p)) = "dir"
            /\ ParentOf(p) # RootPath => tree[ParentOf(p)].ok

AllTrees == {t \in [NodePaths -> NodeOptions] : WellFormed(t)}

(***************************************************************************)
(* fs.WalkDir: the calls of the callback, in order.  A directory is        *)
(* reported, then listed; its children follow sorted by file name; a       *)
(* listing that fails is reported by a second call carrying the error.     *)
(***************************************************************************)
CharRank(c) == CASE c = "a" -> 1 [] c = "b" -> 2 [] c = "c" -> 3 [] OTHER -> 0

Children(tree, d) ==
    {p \in NodePaths : ParentOf(p) = d /\ tree[p].kind # "absent"}

\* A listing in the opposite order.
RECURSIVE SortByNameDesc(_)
SortByNameDesc(ps) ==
    IF ps = {} THEN <<>>
    ELSE LET m == CHOOSE p \in ps :
                    \A q \in ps : CharRank(BaseName(p)) >= CharRank(BaseName(q))
         IN  <<m>> \o SortByNameDesc(ps \ {m})

RECURSIVE SortByName(_)
SortByName(ps) ==
    IF ps = {} THEN <<>>
    ELSE LET m == CHOOSE p \in ps :
                    \A q \in ps : CharRank(BaseName(p)) <= CharRank(BaseName(q))
         IN  <<m>> \o SortByName(ps \ {m})

WalkEvent(name, kind, err) == [name |-> name, kind |-> kind, err |-> err]

RECURSIVE walkDir(_, _)
RECURSIVE walkAll(_, _)
\* A walk that reports a directory after what is in it.
walkDirChildrenFirst(tree, p) ==
    LET last == <<WalkEvent(p, KindAt(tree, p), FALSE)>>
    IN  IF KindAt(tree, p) # "dir" THEN last
        ELSE IF p # RootPath /\ ~tree[p].ok
             THEN last \o <<WalkEvent(p, "dir", TRUE)>>
             ELSE walkAll(tree, SortByName(Children(tree, p))) \o last

walkDir(tree, p) ==
    LET first == <<WalkEvent(p, KindAt(tree, p), FALSE)>>
    IN  IF KindAt(tree, p) # "dir" THEN first
        ELSE IF p # RootPath /\ ~tree[p].ok
             THEN first \o <<WalkEvent(p, "dir", TRUE)>>
             ELSE first \o walkAll(tree, SortByName(Children(tree, p)))

walkAll(tree, ps) ==
    IF ps = <<>> THEN <<>>
    ELSE walkDir(tree, Head(ps)) \o walkAll(tree, Tail(ps))

WalkDir(tree) == walkDir(tree, RootPath)

(***************************************************************************)
(* archiveFS: the callback of one walk event.                              *)
(***************************************************************************)
TypeReg     == "TypeReg"
TypeDir     == "TypeDir"
TypeSymlink == "TypeSymlink"
TypeChar    == "TypeChar"

GitBlobs == "/git/blobs/"

NoEntry == [name |-> <<>>, typeflag |-> "", linkname |-> <<>>, size |-> 0, body |-> NoData]

Header(name, typeflag, linkname, data) ==
    [name |-> name, typeflag |-> typeflag, linkname |-> linkname,
     size |-> data.len, body |-> data]

\* A set that drops a hash that needBlobs has more than once.
RequestedSetOnce(needBlobs) ==
    {needBlobs[i] : i \in {k \in 1..Len(needBlobs) :
                              \A j \in 1..Len(needBlobs) : needBlobs[j] = needBlobs[k] => j = k}}

\* The set built from needBlobs at the start of archiveFS.
RequestedSet(needBlobs) == {needBlobs[i] : i \in 1..Len(needBlobs)}

\* Elide with the threshold compared by >= instead of >.
ElideAtThreshold(incremental, data, requestedSet) ==
    /\ incremental
    /\ data.len >= incrementalSizeThreshold
    /\ gitBlobSHA256(data) \notin requestedSet

\* Whether a regular file's body is replaced by a reference to its hash.
Elide(incremental, data, requestedSet) ==
    /\ incremental
    /\ data.len > incrementalSizeThreshold
    /\ gitBlobSHA256(data) \notin requestedSet

Step(err, skip, entry) == [err |-> err, skip |-> skip, entry |-> entry]

\* What the callback does with one event: an error returned, the event skipped,
\* or one header and body written to the tar writer.
archiveEntry(tree, ev, prefix, requestedSet, incremental) ==
    LET name == IF ev.name = RootPath THEN prefix ELSE prefix \o ev.name
        node == IF ev.name = RootPath THEN DirNode(TRUE) ELSE tree[ev.name]
    IN  IF ev.err THEN Step("walk", FALSE, NoEntry)
        ELSE IF prefix = <<>> /\ ev.name = RootPath THEN Step("none", TRUE, NoEntry)
        ELSE CASE ev.kind = "dir" ->
                    Step("none", FALSE, Header(name \o <<Slash>>, TypeDir, <<>>, NoData))
               [] ev.kind = "file" ->
                    IF ~node.ok THEN Step("read", FALSE, NoEntry)
                    ELSE IF Elide(incremental, node.data, requestedSet)
                         THEN Step("none", FALSE,
                                   Header(name, TypeSymlink,
                                          <<GitBlobs>> \o gitBlobSHA256(node.data), NoData))
                         ELSE Step("none", FALSE, Header(name, TypeReg, <<>>, node.data))
               [] ev.kind = "symlink" ->
                    IF ~node.ok THEN Step("readlink", FALSE, NoEntry)
                    ELSE Step("none", FALSE, Header(name, TypeSymlink, node.target, NoData))
               [] OTHER -> Step("unsupported", FALSE, NoEntry)

\* archiveFS as a whole: the entries written for the events evs, up to the
\* first error.
RECURSIVE archiveFrom(_, _, _, _, _)
archiveFrom(tree, evs, prefix, requestedSet, incremental) ==
    IF evs = <<>> THEN <<>>
    ELSE LET st == archiveEntry(tree, Head(evs), prefix, requestedSet, incremental)
             rest == archiveFrom(tree, Tail(evs), prefix, requestedSet, incremental)
         IN  IF st.err # "none" THEN <<>>
             ELSE IF st.skip THEN rest
             ELSE <<st.entry>> \o rest

\* A display walk that returns nil whatever the walk reports.
displayFSNeverFails(tree) == FALSE

\* displayFS fails exactly on a walk error; every kind of entry is printed.
displayFSFails(tree) == \E i \in 1..Len(WalkDir(tree)) : WalkDir(tree)[i].err

\* makeWhiteout: one header of a character-device type, no body, no trailer.
makeWhiteout(path) == <<Header(path, TypeChar, <<>>, NoData)>>

(***************************************************************************)
(* The response of the server and its classification in main's loop.       *)
(***************************************************************************)
StatusOK == 200
StatusUnprocessableEntity == 422

Unresolved == "application/vnd.git-pages.unresolved"
TextPlain  == "text/plain"

HashA == gitBlobSHA256(D257a)
HashB == gitBlobSHA256(D257b)

\* The body of a response: a sequence of characters, a hash being as many
\* characters as its sequence has elements.
NL == "\n"
CR == "\r"

\* The bodies of a 422 response: hashes, each on a line; the last line with
\* or without its newline, a line with a carriage return before the newline.
Bodies ==
    {<<>>,
     HashA \o <<NL>>,
     HashB,
     HashX \o <<NL>>,
     HashA \o <<NL>> \o HashB \o <<NL>>,
     HashA \o <<CR, NL>> \o HashA \o <<NL>>}
DiagBody == <<"diagnostic", NL>>

Response(status, ctype, body) == [status |-> status, ctype |-> ctype, body |-> body]
NoResponse == Response(0, "", <<>>)

Responses ==
    {Response(StatusUnprocessableEntity, Unresolved, b) : b \in Bodies}
    \cup {Response(s, c, DiagBody) :
            s \in {StatusOK, 201, StatusUnprocessableEntity, 500},
            c \in {Unresolved, TextPlain}}

\* The branch taken on the status alone, whatever the content type.
ClassifyByStatus(status, ctype) ==
    IF status = StatusUnprocessableEntity THEN "resubmit"
    ELSE IF status = StatusOK THEN "success"
    ELSE "failure"

\* The branch main's loop takes for an update operation.
Classify(status, ctype) ==
    IF status = StatusUnprocessableEntity /\ ctype = Unresolved THEN "resubmit"
    ELSE IF status = StatusOK THEN "success"
    ELSE "failure"

\* bufio.ScanLines: a line ends at a newline, and loses a carriage return at
\* its end.
dropCR(line) ==
    IF line # <<>> /\ line[Len(line)] = CR THEN SubSeq(line, 1, Len(line) - 1) ELSE line

\* The loop over scanner.Scan(): the lines of rest after the characters in line,
\* appended to acc.  At the end of the body, characters without a newline are a
\* line if atEOF says so.
RECURSIVE scan(_, _, _, _)
scan(rest, line, acc, atEOF) ==
    IF rest = <<>>
    THEN IF line # <<>> /\ atEOF THEN Append(acc, dropCR(line)) ELSE acc
    ELSE IF Head(rest) = NL
         THEN scan(Tail(rest), <<>>, Append(acc, dropCR(line)), atEOF)
         ELSE scan(Tail(rest), Append(line, Head(rest)), acc, atEOF)

\* A scanner that takes only the lines that end with a newline.
ScanLinesTerminated(body) == scan(body, <<>>, <<>>, FALSE)

\* A scanner loop that appends to the needBlobs of the round before.
ScanLinesAccumulate(body) == scan(body, <<>>, stream.needBlobs, TRUE)

\* needBlobs as the scanner loop collects it: one element per line, in order.
ScanLines(body) == scan(body, <<>>, <<>>, TRUE)

Ops == {"upload_dir", "upload_git", "delete", "debug_manifest"}

SiteHost == "site.example"
ServerHost == "server.example"

pathPrefix == PathPrefixOf(flags.path)

NoHeaders ==
    [ContentType |-> "", Accept |-> "", CreateParents |-> "", Atomic |-> "",
     RaceFree |-> "", Authorization |-> "", ForgeAuthorization |-> "",
     Host |-> "", UserAgent |-> ""]

NoBody == [kind |-> "nil", gen |-> 0, entries |-> <<>>]
PipeBody(gen) == [kind |-> "pipe", gen |-> gen, entries |-> <<>>]

NoRequest == [method |-> "", url |-> [host |-> "", path |-> ""],
              header |-> NoHeaders, body |-> NoBody]

\* http.NewRequest.
NewRequest(method, path, body) ==
    [method |-> method, url |-> [host |-> SiteHost, path |-> path],
     header |-> NoHeaders, body |-> body]

YesNo(b) == IF b THEN "yes" ELSE "no"

\* The headers and the host override main adds to the request of every operation.
Finish(req) ==
    LET h1 == [req.header EXCEPT !.UserAgent = "git-pages-cli"]
        h2 == IF req.method = "PATCH"
              THEN [h1 EXCEPT !.Atomic = YesNo(flags.atomic),
                              !.RaceFree = YesNo(flags.atomic)]
              ELSE h1
        h3 == IF flags.password # "" THEN [h2 EXCEPT !.Authorization = flags.password]
              ELSE IF flags.token # "" THEN [h2 EXCEPT !.ForgeAuthorization = flags.token]
              ELSE h2
    IN  IF flags.server # ""
        THEN [req EXCEPT !.url.host = flags.server, !.header = [h3 EXCEPT !.Host = SiteHost]]
        ELSE [req EXCEPT !.header = h3]

\* Everything of a request but its body.
HeadOf(req) == [method |-> req.method, url |-> req.url, header |-> req.header]

NoStream == [root |-> "nil", prefix |-> <<>>, needBlobs |-> <<>>]
Idle == [state |-> "idle", pos |-> 0, err |-> "none"]
NoOut == [to |-> "none", body |-> <<>>, err |-> "none"]

\* streamArchiveFS: a new pipe and a new goroutine running archiveFS.
streamArchiveFS(root, prefix, needBlobs) ==
    /\ stream' = [root |-> root, prefix |-> prefix, needBlobs |-> needBlobs]
    /\ prevNeed' = stream.needBlobs
    /\ prod' = [state |-> "walk", pos |-> 0, err |-> "none"]
    /\ written' = <<>>
    /\ consumed' = 0
    /\ pipeW' = "open"
    /\ sawEnd' = "no"
    /\ walkFailed' = FALSE
    /\ nBuilt' = nBuilt + 1

StreamUnchanged ==
    UNCHANGED <<stream, prevNeed, prod, written, consumed, pipeW, sawEnd, walkFailed, nBuilt>>

Running == prod.state \in {"walk", "tarClosed", "zstdClosed", "failed"}

Terminal == {"exit_ok", "exit_fail", "crashed"}

(***************************************************************************)
(* The command lines and directories explored.                             *)
(***************************************************************************)
PathFlags == {<<>>, <<"p", "/", "q">>, <<"/", "p", "/", "q", "/">>}

Flags(op, path, incremental, verbose, atomic, parents, server, password, token) ==
    [op |-> op, path |-> path, incremental |-> incremental, verbose |-> verbose,
     atomic |-> atomic, parents |-> parents, server |-> server,
     password |-> password, token |-> token]

\* What main's checks of the flags let through: --path only with --upload-dir or
\* --delete, --incremental only with --upload-dir, not both --password and --token.
ValidFlags(f) ==
    /\ f.path # <<>> => f.op \in {"upload_dir", "delete"}
    /\ f.incremental => f.op = "upload_dir"
    /\ ~(f.password # "" /\ f.token # "")

TreeOf(a, ab, c) == [p \in NodePaths |-> IF p = PA THEN a ELSE IF p = PAB THEN ab ELSE c]

TreeTwoBig == TreeOf(DirNode(TRUE), FileNode(D257a, TRUE), FileNode(D257b, TRUE))
TreeOther  == TreeOf(FileNode(D257a, TRUE), Absent, OtherNode)
TreeNoList == TreeOf(FileNode(D257a, TRUE), Absent, DirNode(FALSE))
\* A link at the top to a directory with a file in it.
TreeLinkToDir == TreeOf(DirNode(TRUE), FileNode(D257a, TRUE), LinkNode(PA, TRUE))
\* A file of more than 256 bytes beside a link whose target, as os.Readlink
\* gives it, is a path under /git/blobs/.
TreeLinkToBlob ==
    TreeOf(FileNode(D257a, TRUE), Absent, LinkNode(<<GitBlobs>> \o HashX, TRUE))
\* The same bytes at two depths, once in an executable file.
TreeSameBytes == TreeOf(DirNode(TRUE), ExecNode(D257a), FileNode(D257a, TRUE))

\* The directory of --upload-dir: whether os.OpenRoot opens it, its tree, and
\* the calls fs.WalkDir makes of the callback for that tree.
Dir(openable, tree) == [openable |-> openable, tree |-> tree, walk |-> WalkDir(tree)]

\* Every operation, over two directories, with a server that asks MaxRounds - 1 times.
InitProtocol ==
    /\ flags \in {f \in {Flags(op, <<>>, inc, verbose, FALSE, FALSE, "", "", "") :
                            op \in Ops, inc \in BOOLEAN, verbose \in BOOLEAN} :
                    ValidFlags(f)}
    /\ fsys \in IF flags.op = "upload_dir"
                THEN {Dir(TRUE, t) : t \in {TreeTwoBig, TreeOther, TreeNoList}}
                ELSE {Dir(TRUE, EmptyTree)}
    /\ limit = MaxRounds

\* A directory upload of every tree, with a server that asks once.
InitTrees ==
    /\ flags \in {Flags("upload_dir", <<>>, inc, FALSE, FALSE, FALSE, "", "", "") :
                    inc \in BOOLEAN}
    /\ fsys \in {Dir(TRUE, t) : t \in AllTrees \cup {TreeSameBytes, TreeLinkToDir, TreeLinkToBlob}}
                \cup {Dir(FALSE, EmptyTree)}
    /\ limit = 2

\* Every combination of the flags that shape the request, over one directory.
InitFlags ==
    /\ flags \in {f \in {Flags(op, path, FALSE, FALSE, atomic, parents, server, pw, tok) :
                            op \in Ops, path \in PathFlags,
                            atomic \in BOOLEAN, parents \in BOOLEAN,
                            server \in {"", ServerHost},
                            pw \in {"", "secret"}, tok \in {"", "forge"}} :
                    ValidFlags(f)}
    /\ fsys = Dir(TRUE, TreeTwoBig)
    /\ limit = 2

\* The process at its start: nothing built, sent or received.
AtStart ==
    /\ pc = "start"
    /\ uploadDir = "nil"
    /\ request = NoRequest
    /\ nBuilt = 0
    /\ round = 0
    /\ stream = NoStream
    /\ prod = Idle
    /\ written = <<>>
    /\ consumed = 0
    /\ pipeW = "open"
    /\ sawEnd = "no"
    /\ orphans = 0
    /\ response = NoResponse
    /\ out = NoOut
    /\ prevNeed = <<>>
    /\ firstReq = HeadOf(NoRequest)
    /\ walkFailed = FALSE

Init == (InitProtocol \/ InitTrees \/ InitFlags) /\ AtStart

Config == <<flags, fsys, limit>>

(***************************************************************************)
(* main, up to its loop: the request of the chosen operation.              *)
(***************************************************************************)
\* os.Exit, or the return of main: the process and its goroutines are gone.
Exit(code, to, body, err) ==
    /\ pc' = code
    /\ out' = [to |-> to, body |-> body, err |-> err]
    /\ prod' = [state |-> "gone", pos |-> 0, err |-> "none"]
    /\ written' = <<>>
    /\ consumed' = 0
    /\ orphans' = 0
    /\ UNCHANGED <<stream, prevNeed, pipeW, sawEnd, walkFailed, nBuilt>>

\* os.OpenRoot fails: "error: invalid directory", exit 1.
OpenRootFails ==
    /\ pc = "start" /\ flags.op = "upload_dir"
    /\ ~fsys.openable
    /\ Exit("exit_fail", "stderr", <<>>, "invalid directory")
    /\ UNCHANGED <<Config, uploadDir, request, round, response, firstReq>>

\* With --verbose the tree is walked and printed first; a walk error ends main.
DisplayFails ==
    /\ pc = "start" /\ flags.op = "upload_dir"
    /\ fsys.openable
    /\ flags.verbose /\ displayFSFails(fsys.tree)
    /\ uploadDir' = "root"
    /\ Exit("exit_fail", "stderr", <<>>, "walk")
    /\ UNCHANGED <<Config, request, round, response, firstReq>>

BuildUploadDir ==
    /\ pc = "start" /\ flags.op = "upload_dir"
    /\ fsys.openable
    /\ flags.verbose => ~displayFSFails(fsys.tree)
    /\ uploadDir' = "root"
    /\ LET req == NewRequest(IF flags.path = <<>> THEN "PUT" ELSE "PATCH", "/",
                             PipeBody(nBuilt + 1))
           hdr == [req.header EXCEPT
                      !.ContentType = "application/x-tar+zstd",
                      !.Accept = "application/vnd.git-pages.unresolved;q=1.0, text/plain;q=0.9",
                      !.CreateParents = YesNo(flags.parents)]
       IN  request' = Finish([req EXCEPT !.header = hdr])
    /\ streamArchiveFS("root", pathPrefix, <<>>)
    /\ pc' = "loop"
    /\ UNCHANGED <<Config, round, orphans, response, out, firstReq>>

BuildUploadGit ==
    /\ pc = "start" /\ flags.op = "upload_git"
    /\ LET req == NewRequest("PUT", "/", [kind |-> "giturl", gen |-> 0, entries |-> <<>>])
       IN  request' = Finish([req EXCEPT
                !.header.ContentType = "application/x-www-form-urlencoded"])
    /\ pc' = "loop"
    /\ UNCHANGED <<Config, uploadDir, round, orphans, response, out, firstReq>>
    /\ StreamUnchanged

BuildDelete ==
    /\ pc = "start" /\ flags.op = "delete"
    /\ request' =
         IF flags.path = <<>>
         THEN Finish(NewRequest("DELETE", "/", NoBody))
         ELSE LET req == NewRequest("PATCH", "/",
                            [kind |-> "whiteout", gen |-> 0,
                             entries |-> makeWhiteout(pathPrefix)])
              IN  Finish([req EXCEPT !.header.ContentType = "application/x-tar"])
    /\ pc' = "loop"
    /\ UNCHANGED <<Config, uploadDir, round, orphans, response, out, firstReq>>
    /\ StreamUnchanged

BuildDebugManifest ==
    /\ pc = "start" /\ flags.op = "debug_manifest"
    /\ request' = Finish(NewRequest("GET", "/.git-pages/manifest.json", NoBody))
    /\ pc' = "loop"
    /\ UNCHANGED <<Config, uploadDir, round, orphans, response, out, firstReq>>
    /\ StreamUnchanged

(***************************************************************************)
(* The goroutine of streamArchiveFS: archiveFS, then the close of the pipe.*)
(***************************************************************************)
Events == fsys.walk

Alive == pc \notin Terminal

\* A callback that returns nil for an object it cannot add.
NextStepSkipsUnsupported ==
    LET st == archiveEntry(fsys.tree, Events[prod.pos + 1], stream.prefix,
                           RequestedSet(stream.needBlobs), flags.incremental)
    IN  IF st.err = "unsupported" THEN Step("none", TRUE, NoEntry) ELSE st

\* A callback that returns nil for a symlink without writing it.
NextStepSkipsSymlinks ==
    LET st == archiveEntry(fsys.tree, Events[prod.pos + 1], stream.prefix,
                           RequestedSet(stream.needBlobs), flags.incremental)
    IN  IF Events[prod.pos + 1].kind = "symlink" /\ st.err = "none"
        THEN Step("none", TRUE, NoEntry) ELSE st

\* A callback that embeds every executable file, and names a placeholder's
\* target after the directory of the file.
NextStepByPathAndMode ==
    LET ev == Events[prod.pos + 1]
        st == archiveEntry(fsys.tree, ev, stream.prefix,
                           RequestedSet(stream.needBlobs), flags.incremental)
        node == fsys.tree[ev.name]
    IN  IF st.err # "none" \/ st.skip \/ ev.kind # "file" \/ st.entry.typeflag = TypeReg
        THEN st
        ELSE IF node.perm = PermExec
             THEN Step("none", FALSE, Header(st.entry.name, TypeReg, <<>>, node.data))
             ELSE [st EXCEPT !.entry.linkname = @ \o ParentOf(ev.name)]

\* A callback that follows a link to a node of the tree: the entry is that
\* of the node the link leads to, under the name of the link.
NextStepFollowsSymlinks ==
    LET ev == Events[prod.pos + 1]
        st == archiveEntry(fsys.tree, ev, stream.prefix,
                           RequestedSet(stream.needBlobs), flags.incremental)
        to == fsys.tree[ev.name].target
    IN  IF st.err # "none" \/ st.skip \/ ev.kind # "symlink" \/ to \notin NodePaths
        THEN st
        ELSE IF fsys.tree[to].kind = "file" /\ fsys.tree[to].ok
             THEN Step("none", FALSE, Header(st.entry.name, TypeReg, <<>>, fsys.tree[to].data))
        ELSE IF fsys.tree[to].kind = "dir"
             THEN Step("none", FALSE, Header(st.entry.name \o <<Slash>>, TypeDir, <<>>, NoData))
        ELSE st

\* A callback that takes the name of a directory as it is and ends the name
\* of a symbolic link with a slash.
NextStepSlashOnLinks ==
    LET ev == Events[prod.pos + 1]
        st == archiveEntry(fsys.tree, ev, stream.prefix,
                           RequestedSet(stream.needBlobs), flags.incremental)
    IN  IF st.err # "none" \/ st.skip THEN st
        ELSE IF ev.kind = "dir"
             THEN [st EXCEPT !.entry.name = SubSeq(@, 1, Len(@) - 1)]
        ELSE IF ev.kind = "symlink"
             THEN [st EXCEPT !.entry.name = @ \o <<Slash>>]
        ELSE st

\* A callback that returns at once for the root whatever the prefix is.
NextStepSkipsRoot ==
    LET ev == Events[prod.pos + 1]
        st == archiveEntry(fsys.tree, ev, stream.prefix,
                           RequestedSet(stream.needBlobs), flags.incremental)
    IN  IF ev.name = RootPath /\ ~ev.err THEN Step("none", TRUE, NoEntry) ELSE st

\* A callback that sets the size of the header before it decides to leave
\* the body out.
NextStepSizeBeforeElide ==
    LET ev == Events[prod.pos + 1]
        st == archiveEntry(fsys.tree, ev, stream.prefix,
                           RequestedSet(stream.needBlobs), flags.incremental)
    IN  IF st.err # "none" \/ st.skip \/ ev.kind # "file" THEN st
        ELSE [st EXCEPT !.entry.size = fsys.tree[ev.name].data.len]

NextStep ==
    archiveEntry(fsys.tree, Events[prod.pos + 1], stream.prefix,
                 RequestedSet(stream.needBlobs), flags.incremental)

Walking ==
    /\ Alive
    /\ prod.state = "walk" /\ stream.root = "root"
    /\ prod.pos < Len(Events)

\* A goroutine that reports the error of archiveFS itself and ends the process.
ProducerFailsExits ==
    /\ Walking
    /\ NextStep.err # "none"
    /\ Exit("exit_fail", "stderr", <<>>, NextStep.err)
    /\ UNCHANGED <<Config, uploadDir, request, round, response, firstReq>>

\* The callback returns an error: the walk ends, archiveFS returns the error.
ProducerFails ==
    /\ Walking
    /\ NextStep.err # "none"
    /\ prod' = [prod EXCEPT !.state = "failed", !.err = NextStep.err]
    /\ walkFailed' = TRUE
    /\ UNCHANGED <<Config, pc, uploadDir, request, nBuilt, round, stream, written,
                   consumed, pipeW, sawEnd, orphans, response, out, prevNeed, firstReq>>

\* The callback returns at once for the root of an upload without --path.
ProducerSkips ==
    /\ Walking
    /\ NextStep.err = "none" /\ NextStep.skip
    /\ prod' = [prod EXCEPT !.pos = @ + 1]
    /\ UNCHANGED <<Config, pc, uploadDir, request, nBuilt, round, stream, written,
                   consumed, pipeW, sawEnd, orphans, response, out, prevNeed, firstReq,
                   walkFailed>>

\* A callback whose writes never wait for the reader.
ProducerWritesUnbounded ==
    /\ Walking
    /\ NextStep.err = "none" /\ ~NextStep.skip
    /\ written' = Append(written, NextStep.entry)
    /\ prod' = [prod EXCEPT !.pos = @ + 1]
    /\ UNCHANGED <<Config, pc, uploadDir, request, nBuilt, round, stream,
                   consumed, pipeW, sawEnd, orphans, response, out, prevNeed, firstReq,
                   walkFailed>>

\* The callback writes the header and the body of one entry.  The write returns
\* while the compression layer has room; otherwise it waits for the reader.
ProducerWrites ==
    /\ Walking
    /\ NextStep.err = "none" /\ ~NextStep.skip
    /\ Len(written) - consumed < ZstdWindow
    /\ written' = Append(written, NextStep.entry)
    /\ prod' = [prod EXCEPT !.pos = @ + 1]
    /\ UNCHANGED <<Config, pc, uploadDir, request, nBuilt, round, stream,
                   consumed, pipeW, sawEnd, orphans, response, out, prevNeed, firstReq,
                   walkFailed>>

\* An end of the walk that adds an empty file for a requested hash that no
\* file of the walk had.
ProducerCloseTarFabricates ==
    /\ Alive
    /\ prod.state = "walk" /\ stream.root = "root"
    /\ prod.pos = Len(Events)
    /\ prod' = [prod EXCEPT !.state = "tarClosed"]
    /\ LET missing == {h \in RequestedSet(stream.needBlobs) :
                         \A i \in 1..Len(written) : gitBlobSHA256(written[i].body) # h}
       IN  written' = IF missing = {} THEN written
                      ELSE Append(written,
                                  Header(stream.prefix \o (CHOOSE h \in missing : TRUE),
                                         TypeReg, <<>>, NoData))
    /\ UNCHANGED <<Config, pc, uploadDir, request, nBuilt, round, stream,
                   consumed, pipeW, sawEnd, orphans, response, out, prevNeed, firstReq,
                   walkFailed>>

\* The walk is over: tarWriter.Close writes the trailer, and zstdWriter.Close
\* starts to flush everything to the pipe.
ProducerCloseTar ==
    /\ Alive
    /\ prod.state = "walk" /\ stream.root = "root"
    /\ prod.pos = Len(Events)
    /\ prod' = [prod EXCEPT !.state = "tarClosed"]
    /\ UNCHANGED <<Config, pc, uploadDir, request, nBuilt, round, stream, written,
                   consumed, pipeW, sawEnd, orphans, response, out, prevNeed, firstReq,
                   walkFailed>>

\* A goroutine that closes the pipe while the compression layer still has
\* to be closed.
ProducerCloseBeforeZstd ==
    /\ Alive
    /\ prod.state = "tarClosed"
    /\ prod' = [prod EXCEPT !.state = "closed"]
    /\ pipeW' = "eof"
    /\ UNCHANGED <<Config, pc, uploadDir, request, nBuilt, round, stream, written,
                   consumed, sawEnd, orphans, response, out, prevNeed, firstReq,
                   walkFailed>>

\* archiveFS returned nil: writer.Close().
ProducerClose ==
    /\ Alive
    /\ prod.state = "zstdClosed"
    /\ prod' = [prod EXCEPT !.state = "closed"]
    /\ pipeW' = "eof"
    /\ UNCHANGED <<Config, pc, uploadDir, request, nBuilt, round, stream, written,
                   consumed, sawEnd, orphans, response, out, prevNeed, firstReq,
                   walkFailed>>

\* A goroutine that closes the pipe normally whatever archiveFS returned.
ProducerCloseAnyway ==
    /\ Alive
    /\ prod.state = "failed"
    /\ prod' = [prod EXCEPT !.state = "closed"]
    /\ pipeW' = "eof"
    /\ UNCHANGED <<Config, pc, uploadDir, request, nBuilt, round, stream, written,
                   consumed, sawEnd, orphans, response, out, prevNeed, firstReq,
                   walkFailed>>

\* archiveFS returned an error: writer.CloseWithError(err).
ProducerCloseWithError ==
    /\ Alive
    /\ prod.state = "failed"
    /\ prod' = [prod EXCEPT !.state = "closedErr"]
    /\ pipeW' = "err"
    /\ UNCHANGED <<Config, pc, uploadDir, request, nBuilt, round, stream, written,
                   consumed, sawEnd, orphans, response, out, prevNeed, firstReq,
                   walkFailed>>

\* archiveFS on the file system of a nil *os.Root: the goroutine panics in
\* fs.WalkDir and the process dies.
ProducerPanics ==
    /\ Alive
    /\ prod.state = "walk" /\ stream.root = "nil"
    /\ Exit("crashed", "stderr", <<>>, "panic")
    /\ UNCHANGED <<Config, uploadDir, request, round, response, firstReq>>

\* A goroutine of an earlier stream whose write to the pipe never returns.
OrphanStaysBlocked ==
    /\ Alive
    /\ orphans > 0
    /\ UNCHANGED vars

\* A goroutine of an earlier stream, its reader closed by the transport: its
\* next write to the pipe fails, and it closes its end with that error.
OrphanEnds ==
    /\ Alive
    /\ orphans > 0
    /\ orphans' = orphans - 1
    /\ UNCHANGED <<Config, pc, uploadDir, request, nBuilt, round, response, out, firstReq>>
    /\ StreamUnchanged

(***************************************************************************)
(* main's loop: http.DefaultClient.Do and the response.                    *)
(***************************************************************************)
\* Do is called: the transport has the request.
DoSend ==
    /\ pc = "loop"
    /\ pc' = "sent"
    /\ round' = round + 1
    /\ firstReq' = IF round = 0 THEN HeadOf(request) ELSE firstReq
    /\ UNCHANGED <<Config, uploadDir, request, orphans, response, out>>
    /\ StreamUnchanged

\* The transport reads the body: what the producer has written so far, which
\* also lets a flush of the compression layer return.
TransportReads ==
    /\ pc = "sent" /\ request.body.kind = "pipe" /\ sawEnd = "no"
    /\ pipeW = "open"
    /\ consumed < Len(written) \/ prod.state = "tarClosed"
    /\ consumed' = Len(written)
    /\ prod' = IF prod.state = "tarClosed" THEN [prod EXCEPT !.state = "zstdClosed"] ELSE prod
    /\ UNCHANGED <<Config, pc, uploadDir, request, nBuilt, round, stream, written,
                   pipeW, sawEnd, orphans, response, out, prevNeed, firstReq, walkFailed>>

\* The transport reads the end of the body: end of stream, or the producer's error.
TransportReadsEnd ==
    /\ pc = "sent" /\ request.body.kind = "pipe" /\ sawEnd = "no"
    /\ pipeW # "open"
    /\ sawEnd' = pipeW
    /\ UNCHANGED <<Config, pc, uploadDir, request, nBuilt, round, stream, prod, written,
                   consumed, pipeW, orphans, response, out, prevNeed, firstReq, walkFailed>>

\* Do returns an error, the body's or the connection's: "error: ...", exit 1.
DoFails ==
    /\ pc = "sent"
    /\ \/ sawEnd = "err" /\ Exit("exit_fail", "stderr", <<>>, prod.err)
       \/ sawEnd # "err" /\ Exit("exit_fail", "stderr", <<>>, "connection")
    /\ UNCHANGED <<Config, uploadDir, request, round, response, firstReq>>

\* The goroutine of the stream the transport drops when Do returns a response.
Dropped ==
    IF request.body.kind = "pipe" /\ stream.root = "root" /\ Running
    THEN 1 ELSE 0

\* Do returns a response, at the end of the body or before it.  A goroutine
\* on a nil root has panicked before any response can arrive.
DoReturns ==
    /\ pc = "sent" /\ sawEnd # "err"
    /\ ~(prod.state = "walk" /\ stream.root = "nil")
    /\ \E r \in Responses :
        /\ Classify(r.status, r.ctype) = "resubmit" => round < limit
        /\ response' = r
    /\ pc' = "response"
    /\ orphans' = orphans + Dropped
    /\ prod' = [state |-> IF Dropped = 1 THEN "orphaned" ELSE "finished",
                pos |-> 0, err |-> "none"]
    /\ written' = <<>>
    /\ consumed' = 0
    /\ UNCHANGED <<Config, uploadDir, request, nBuilt, round, stream, pipeW, sawEnd, out,
                   prevNeed, firstReq, walkFailed>>

\* --debug-manifest: the body to stdout on 200, to stderr and exit 1 otherwise.
HandleManifest ==
    /\ pc = "response" /\ flags.op = "debug_manifest"
    /\ IF response.status = StatusOK
       THEN Exit("exit_ok", "stdout", response.body, "none")
       ELSE Exit("exit_fail", "stderr", response.body, "none")
    /\ UNCHANGED <<Config, uploadDir, request, round, response, firstReq>>

\* A loop that sends the request it has once more, with no new body.
ResubmitSameBody ==
    /\ pc = "response" /\ flags.op # "debug_manifest"
    /\ Classify(response.status, response.ctype) = "resubmit"
    /\ pc' = "loop"
    /\ UNCHANGED <<Config, uploadDir, request, round, orphans, response, out, firstReq>>
    /\ StreamUnchanged

\* A loop that gives up after its second round.
ResubmitCapped ==
    /\ pc = "response" /\ flags.op # "debug_manifest"
    /\ Classify(response.status, response.ctype) = "resubmit"
    /\ IF round < 2
       THEN /\ request' = [request EXCEPT !.body = PipeBody(nBuilt + 1)]
            /\ streamArchiveFS(uploadDir, pathPrefix, ScanLines(response.body))
            /\ pc' = "loop"
            /\ UNCHANGED <<orphans, out>>
       ELSE /\ Exit("exit_fail", "stderr", response.body, "none")
            /\ UNCHANGED request
    /\ UNCHANGED <<Config, uploadDir, round, response, firstReq>>

\* A loop that makes a new request for the new body, without main's headers
\* and host override.
ResubmitNewRequest ==
    /\ pc = "response" /\ flags.op # "debug_manifest"
    /\ Classify(response.status, response.ctype) = "resubmit"
    /\ request' = NewRequest(request.method, request.url.path, PipeBody(nBuilt + 1))
    /\ streamArchiveFS(uploadDir, pathPrefix, ScanLines(response.body))
    /\ pc' = "loop"
    /\ UNCHANGED <<Config, uploadDir, round, orphans, response, out, firstReq>>

\* A loop that builds the next stream while Do still sends the request.
ResubmitWhileSending ==
    /\ pc = "sent" /\ flags.op # "debug_manifest"
    /\ round < limit
    /\ request' = [request EXCEPT !.body = PipeBody(nBuilt + 1)]
    /\ streamArchiveFS(uploadDir, pathPrefix, <<>>)
    /\ pc' = "loop"
    /\ UNCHANGED <<Config, uploadDir, round, orphans, response, out, firstReq>>

\* 422 with the unresolved content type: the lines of the body become needBlobs,
\* the request gets a new body, and the loop continues.
Resubmit ==
    /\ pc = "response" /\ flags.op # "debug_manifest"
    /\ Classify(response.status, response.ctype) = "resubmit"
    /\ request' = [request EXCEPT !.body = PipeBody(nBuilt + 1)]
    /\ streamArchiveFS(uploadDir, pathPrefix, ScanLines(response.body))
    /\ pc' = "loop"
    /\ UNCHANGED <<Config, uploadDir, round, orphans, response, out, firstReq>>

\* 200: "result: ..." and the body to stdout.
Accept ==
    /\ pc = "response" /\ flags.op # "debug_manifest"
    /\ Classify(response.status, response.ctype) = "success"
    /\ Exit("exit_ok", "stdout", response.body, "none")
    /\ UNCHANGED <<Config, uploadDir, request, round, response, firstReq>>

\* Anything else: "result: error" and the body to stderr, exit 1.
Reject ==
    /\ pc = "response" /\ flags.op # "debug_manifest"
    /\ Classify(response.status, response.ctype) = "failure"
    /\ Exit("exit_fail", "stderr", response.body, "none")
    /\ UNCHANGED <<Config, uploadDir, request, round, response, firstReq>>

Next ==
    \/ OpenRootFails
    \/ DisplayFails
    \/ BuildUploadDir
    \/ BuildUploadGit
    \/ BuildDelete
    \/ BuildDebugManifest
    \/ ProducerFails
    \/ ProducerSkips
    \/ ProducerWrites
    \/ ProducerCloseTar
    \/ ProducerClose
    \/ ProducerCloseWithError
    \/ ProducerPanics
    \/ OrphanEnds
    \/ DoSend
    \/ TransportReads
    \/ TransportReadsEnd
    \/ DoFails
    \/ DoReturns
    \/ HandleManifest
    \/ Resubmit
    \/ Accept
    \/ Reject

Spec == Init /\ [][Next]_vars

(***************************************************************************)
(* A tree that changes between the rounds of an upload.                    *)
(***************************************************************************)
\* The tree of TreeTwoBig after a/b was moved to c.
TreeMoved == TreeOf(DirNode(TRUE), Absent, FileNode(D257a, TRUE))

MutTrees == {TreeTwoBig, TreeMoved, TreeOther, TreeNoList, TreeLinkToBlob}

\* Every operation, over the trees that replace each other.
InitMut ==
    /\ flags \in {f \in {Flags(op, <<>>, inc, verbose, FALSE, FALSE, "", "", "") :
                            op \in Ops, inc \in BOOLEAN, verbose \in BOOLEAN} :
                    ValidFlags(f)}
    /\ fsys \in IF flags.op = "upload_dir"
                THEN {Dir(TRUE, t) : t \in MutTrees} \cup {Dir(FALSE, EmptyTree)}
                ELSE {Dir(TRUE, EmptyTree)}
    /\ limit = MaxRounds
    /\ AtStart

\* Somebody changes the directory while main handles a response that asks
\* for another round.
TreeChanges ==
    /\ pc = "response" /\ flags.op = "upload_dir"
    /\ Classify(response.status, response.ctype) = "resubmit"
    /\ \E t \in MutTrees \ {fsys.tree} : fsys' = Dir(fsys.openable, t)
    /\ UNCHANGED <<flags, limit, pc, uploadDir, request, nBuilt, round, orphans,
                   response, out, firstReq>>
    /\ StreamUnchanged

NextMut == Next \/ TreeChanges

MutSpec == InitMut /\ [][NextMut]_vars

\* main is one sequential flow that keeps running: a step of its loop that is
\* possible is taken.
LiveSpec ==
    /\ Init /\ [][Next]_vars
    /\ WF_vars(DoSend) /\ WF_vars(Resubmit) /\ WF_vars(Accept) /\ WF_vars(Reject)

\* The steps of the goroutine of the latest stream, of which one at most is
\* possible at a time, and the steps of the transport on the body.
GoroutineStep ==
    \/ ProducerFails \/ ProducerSkips \/ ProducerWrites
    \/ ProducerCloseTar \/ ProducerClose \/ ProducerCloseWithError
    \/ ProducerPanics

TransportStep == TransportReads \/ TransportReadsEnd

\* The goroutines are scheduled, the transport reads a body it was given for
\* as long as there is something to read, and it closes a body it drops;
\* main calls Do once it has a request.  Nothing is assumed of the server.
StreamLiveSpec ==
    /\ InitMut /\ [][Next]_vars
    /\ WF_vars(GoroutineStep) /\ WF_vars(TransportStep)
    /\ WF_vars(OrphanEnds) /\ WF_vars(DoSend)

(***************************************************************************)
(* Every value of --path up to a length.                                   *)
(***************************************************************************)
\* The characters of a value of --path: a letter and the slash.
PathChars == {"p", Slash}

\* The strings of at most n of these characters, the empty one included.
PathsUpTo(n) == UNION {[1..k -> PathChars] : k \in 0..n}

\* Uploads and deletes with every such --path, and the other operations.
InitPaths ==
    /\ flags \in {f \in {Flags(op, path, FALSE, verbose, FALSE, FALSE, "", "", "") :
                            op \in Ops, path \in PathsUpTo(MaxPathLen),
                            verbose \in BOOLEAN} :
                    ValidFlags(f) /\ (f.verbose => f.path = <<>>)}
    /\ fsys \in IF flags.op = "upload_dir"
                THEN {Dir(TRUE, TreeTwoBig), Dir(TRUE, TreeNoList), Dir(FALSE, EmptyTree)}
                ELSE {Dir(TRUE, EmptyTree)}
    /\ limit = 2
    /\ AtStart

PathSpec == InitPaths /\ [][Next]_vars

(***************************************************************************)
(* What the claims speak of.                                               *)
(***************************************************************************)
\* A stream is being produced or sent: the entries in written are its archive.
InRound == pc \in {"loop", "sent"} /\ stream.root = "root"

\* The callback has been called for path p in the walk of the latest stream.
Visited(p) ==
    \E i \in 1..Len(Events) : i <= prod.pos /\ Events[i].name = p /\ ~Events[i].err

ReadableFiles ==
    {p \in NodePaths : fsys.tree[p].kind = "file" /\ fsys.tree[p].ok}

\* The entries of the latest stream written for path p.
EntriesFor(p) ==
    {i \in 1..Len(written) : written[i].name = stream.prefix \o p}

\* Entry e is a symlink whose target is a path under /git/blobs/.
HasBlobTarget(e) ==
    e.typeflag = TypeSymlink /\ e.linkname # <<>> /\ e.linkname[1] = GitBlobs

\* Entry e has the name of a symbolic link of the tree.
ForLink(e) ==
    \E p \in NodePaths : e.name = stream.prefix \o p /\ fsys.tree[p].kind = "symlink"

IsPlaceholder(e, data) ==
    /\ e.typeflag = TypeSymlink
    /\ e.linkname = <<GitBlobs>> \o gitBlobSHA256(data)
    /\ e.size = 0
    /\ e.body = NoData

IsEmbedded(e, data) ==
    /\ e.typeflag = TypeReg
    /\ e.linkname = <<>>
    /\ e.size = data.len
    /\ e.body = data

\* The MustEmbedSet of the latest stream.
MustEmbedSet == {stream.needBlobs[i] : i \in 1..Len(stream.needBlobs)}

\* The lines of a body: the longest stretches without a newline that start
\* at the start of the body or after a newline, and are not empty at its end.
LineSpans(body) ==
    {sp \in (1..Len(body) + 1) \X (0..Len(body)) :
        /\ sp[1] <= sp[2] + 1
        /\ \A k \in sp[1]..sp[2] : body[k] # NL
        /\ sp[1] = 1 \/ body[sp[1] - 1] = NL
        /\ IF sp[2] = Len(body) THEN sp[1] <= sp[2] ELSE body[sp[2] + 1] = NL}

LineAt(body, sp) ==
    LET to == IF sp[1] <= sp[2] /\ body[sp[2]] = CR THEN sp[2] - 1 ELSE sp[2]
    IN  SubSeq(body, sp[1], to)

\* The lines of the body of the latest response.
ResponseLines == {LineAt(response.body, sp) : sp \in LineSpans(response.body)}

IsUnresolved(r) == r.status = 422 /\ r.ctype = "application/vnd.git-pages.unresolved"

(***************************************************************************)
(* C1.  In every round, a regular file the walk has reached is in the      *)
(* archive exactly once: as a placeholder (a symlink to /git/blobs/<hash>  *)
(* of size 0 and no body) if and only if --incremental is set, its length  *)
(* is greater than 256 and its hash is not in the round's needBlobs; as a  *)
(* regular file with all its bytes in every other case.                    *)
(***************************************************************************)
C1_ElisionExactly ==
    InRound =>
        \A p \in ReadableFiles :
            Visited(p) =>
                /\ Cardinality(EntriesFor(p)) = 1
                /\ \A i \in EntriesFor(p) :
                     LET data == fsys.tree[p].data
                     IN  IF /\ flags.incremental
                            /\ data.len > 256
                            /\ gitBlobSHA256(data) \notin MustEmbedSet
                         THEN IsPlaceholder(written[i], data)
                         ELSE IsEmbedded(written[i], data)

\* The second round of an incremental upload that embeds the one file asked for,
\* and keeps another file of more than 256 bytes a placeholder.
C1_Witness ==
    /\ InRound /\ flags.incremental /\ MustEmbedSet = {HashA}
    /\ \E i, j \in 1..Len(written) :
         /\ IsEmbedded(written[i], D257a)
         /\ IsPlaceholder(written[j], D257b)

(***************************************************************************)
(* C2.  In the round that follows a 422/unresolved response, over the same *)
(* tree, every file the walk has reached whose hash is a line of that      *)
(* response is embedded with all its bytes, and no entry of the archive    *)
(* stands for a file by a hash the response listed: a symlink to such a    *)
(* hash under /git/blobs/ is the entry of a symbolic link of the tree.     *)
(***************************************************************************)
C2_RequestedEmbeddedNextRound ==
    InRound /\ nBuilt >= 2 =>
        /\ \A p \in ReadableFiles :
             Visited(p) /\ gitBlobSHA256(fsys.tree[p].data) \in ResponseLines =>
                 \A i \in EntriesFor(p) : IsEmbedded(written[i], fsys.tree[p].data)
        /\ \A i \in 1..Len(written) : \A h \in ResponseLines :
             ~ForLink(written[i]) =>
                ~(written[i].typeflag = TypeSymlink /\ written[i].linkname = <<GitBlobs>> \o h)

\* An incremental round after a response that listed both large files, with
\* both of them embedded.
C2_Witness ==
    /\ InRound /\ nBuilt >= 2 /\ flags.incremental
    /\ ResponseLines = {HashA, HashB}
    /\ \E i, j \in 1..Len(written) :
         IsEmbedded(written[i], D257a) /\ IsEmbedded(written[j], D257b)

(***************************************************************************)
(* C3.  Before any response the needBlobs of the stream is empty; after a  *)
(* response it is the list of lines of that response, and nothing of an    *)
(* earlier list is kept: a large file asked for two responses ago and not  *)
(* in the latest response is a placeholder again.                          *)
(***************************************************************************)
C3_MustEmbedReplaced ==
    pc \in {"loop", "sent"} =>
        /\ response = NoResponse => stream.needBlobs = <<>>
        /\ response # NoResponse =>
             /\ MustEmbedSet = ResponseLines
             /\ Len(stream.needBlobs) = Cardinality(LineSpans(response.body))
        /\ InRound /\ flags.incremental =>
             \A p \in ReadableFiles :
                LET data == fsys.tree[p].data
                    hash == gitBlobSHA256(data)
                IN  (/\ Visited(p)
                     /\ data.len > 256
                     /\ \E k \in 1..Len(prevNeed) : prevNeed[k] = hash
                     /\ hash \notin ResponseLines)
                    => \A i \in EntriesFor(p) : IsPlaceholder(written[i], data)

\* The third round: the file asked for by the first response and not by the
\* second is a placeholder.
C3_Witness ==
    /\ InRound /\ nBuilt = 3 /\ flags.incremental
    /\ prevNeed = <<HashA>>
    /\ HashA \notin ResponseLines
    /\ \E i \in 1..Len(written) : IsPlaceholder(written[i], D257a)

\* The operations that change the site.
IsUpdate == flags.op \in {"upload_dir", "upload_git", "delete"}

(***************************************************************************)
(* C4.  For an update operation, the step main takes on a response starts  *)
(* another round exactly when the status is 422 and the content type is    *)
(* application/vnd.git-pages.unresolved; it ends in success exactly when   *)
(* the response is not of that kind and the status is 200; on every other  *)
(* response it ends in failure with the body of the response on stderr.    *)
(***************************************************************************)
C4_ResponseClassified ==
    [][ IsUpdate /\ pc = "response" /\ pc' # pc =>
          /\ pc' = "loop" <=> IsUnresolved(response)
          /\ pc' = "exit_ok" <=> ~IsUnresolved(response) /\ response.status = 200
          /\ pc' \notin {"loop", "exit_ok"} =>
               /\ pc' = "exit_fail"
               /\ out'.to = "stderr" /\ out'.body = response.body
          /\ pc' = "exit_ok" => out'.to = "stdout" ]_vars

\* A 422 without the unresolved content type has ended an update in failure,
\* with the body of the response as the diagnostic.
C4_Witness ==
    /\ IsUpdate /\ pc = "exit_fail"
    /\ response.status = 422 /\ response.ctype = TextPlain
    /\ out = [to |-> "stderr", body |-> response.body, err |-> "none"]

(***************************************************************************)
(* C5.  The negotiation of an update moves Built -> Sent -> {Accepted,     *)
(* Unresolved, Rejected}.  A request is sent only from Built, and the body *)
(* of a directory upload is then a stream built for this send and for no   *)
(* earlier one; the only step back is Unresolved -> Built, which builds a  *)
(* new stream; after Accepted, Rejected or the end of the process no       *)
(* stream is built and no request is sent.                                 *)
(***************************************************************************)
Phase ==
    IF pc = "start" THEN "Start"
    ELSE IF pc = "loop" THEN "Built"
    ELSE IF pc = "sent" THEN "Sent"
    ELSE IF pc = "response"
         THEN IF IsUnresolved(response) THEN "Unresolved"
              ELSE IF response.status = 200 THEN "Accepted" ELSE "Rejected"
    ELSE "Ended"

PhaseRank(ph) ==
    CASE ph = "Start" -> 0
      [] ph = "Built" -> 1
      [] ph = "Sent" -> 2
      [] ph \in {"Accepted", "Unresolved", "Rejected"} -> 3
      [] ph = "Ended" -> 4

C5_NegotiationStates ==
    [][ IsUpdate =>
          /\ Phase' = "Sent" /\ Phase # "Sent" =>
               /\ Phase = "Built" /\ round' = round + 1
               /\ request.body.kind = "pipe" => request.body.gen = nBuilt
               /\ flags.op = "upload_dir" => nBuilt = round'
          /\ round' # round => Phase = "Built" /\ Phase' = "Sent"
          /\ PhaseRank(Phase') = 3 /\ Phase' # Phase => Phase = "Sent"
          /\ PhaseRank(Phase') < PhaseRank(Phase) =>
               Phase = "Unresolved" /\ Phase' = "Built" /\ nBuilt' = nBuilt + 1
          /\ nBuilt' # nBuilt => Phase \in {"Start", "Unresolved"} /\ Phase' = "Built"
          /\ Phase \in {"Accepted", "Rejected", "Ended"} =>
               /\ nBuilt' = nBuilt /\ round' = round
               /\ Phase' \in {Phase, "Ended"} ]_vars

\* A directory upload accepted in its second or a later round, each round
\* with a stream of its own.
C5_Witness ==
    /\ flags.op = "upload_dir" /\ pc = "exit_ok"
    /\ round >= 2 /\ nBuilt = round

(***************************************************************************)
(* C6.  In whatever round a 422/unresolved response to an update arrives,  *)
(* the step main takes on it builds a new stream and goes back to send it, *)
(* and the request it has built is sent; and a response of any other kind  *)
(* leads to the end of the operation, in success or in failure, with the   *)
(* body of that response as the outcome.                                   *)
(***************************************************************************)
C6_NoRoundCap ==
    /\ [][ IsUpdate /\ pc = "response" /\ IsUnresolved(response) /\ pc' # pc =>
             pc' = "loop" /\ nBuilt' = nBuilt + 1 ]_vars
    /\ (IsUpdate /\ pc = "loop") ~> (pc # "loop")
    /\ (IsUpdate /\ pc = "response" /\ ~IsUnresolved(response)) ~>
           (pc \in {"exit_ok", "exit_fail"} /\ out.body = response.body /\ out.err = "none")

\* A directory upload that was asked to resubmit as often as the server chose
\* to, and ended when the server answered otherwise.
C6_Witness ==
    /\ flags.op = "upload_dir" /\ pc \in {"exit_ok", "exit_fail"}
    /\ out.err = "none" /\ ~IsUnresolved(response)
    /\ round = MaxRounds /\ nBuilt = MaxRounds

(***************************************************************************)
(* C7.  In every round the method, the URL (with the host of --server) and *)
(* every header of the request are those of the first round, and the path  *)
(* prefix of every stream is the prefix main derived from --path: a        *)
(* resubmission changes nothing but the body.                              *)
(***************************************************************************)
C7_OnlyBodyChanges ==
    /\ [](round >= 1 => HeadOf(request) = firstReq)
    /\ [](nBuilt >= 1 => stream.prefix = pathPrefix)
    /\ [][ pc = "response" /\ pc' = "loop" =>
             /\ HeadOf(request') = HeadOf(request)
             /\ request'.body # request.body ]_vars

\* The second round of a path-scoped atomic upload to another server, with
\* authorization.
C7_Witness ==
    /\ pc = "sent" /\ round >= 2 /\ flags.op = "upload_dir"
    /\ request.method = "PATCH" /\ request.url.host = ServerHost
    /\ request.header.Atomic = "yes" /\ request.header.Authorization # ""
    /\ stream.prefix = <<"p", "/", "q", "/">>
    /\ request.body = PipeBody(2)

\* The errors archiveFS returns.
WalkErrors == {"walk", "read", "readlink", "unsupported"}

Malformed(body) ==
    \E sp \in LineSpans(body) :
        LET line == LineAt(body, sp) IN line = <<>> \/ line[1] # "sha256:"

(***************************************************************************)
(* C9 as stated.  On a 422/unresolved response to a directory upload whose *)
(* body is empty or has a line that is not a hash, main ends in failure:   *)
(* it builds no stream and does not go back to send.                       *)
(***************************************************************************)
C9_BadUnresolvedBodyIsFatal ==
    [][ /\ flags.op = "upload_dir" /\ pc = "response" /\ pc' # pc
        /\ IsUnresolved(response)
        /\ response.body = <<>> \/ Malformed(response.body)
        => pc' = "exit_fail" /\ nBuilt' = nBuilt ]_vars

\* The tree has a directory that cannot be listed, or an object that is neither
\* a file, a directory nor a symlink.
HasUnlistableDir == \E p \in NodePaths : fsys.tree[p].kind = "dir" /\ ~fsys.tree[p].ok
HasUnsupported == \E p \in NodePaths : fsys.tree[p].kind = "other"

(***************************************************************************)
(* C10 as stated.  When the directory of an upload cannot be opened, or    *)
(* its tree has a directory that cannot be listed or an unsupported        *)
(* object, no request is handed to the transport.                          *)
(***************************************************************************)
C10_NoNetworkOnInputError ==
    flags.op = "upload_dir" /\ (~fsys.openable \/ HasUnlistableDir \/ HasUnsupported)
        => round = 0

(***************************************************************************)
(* C10.  A directory that cannot be opened ends main before any stream is  *)
(* built and any request sent, and so does, with --verbose, a directory    *)
(* of the tree that cannot be listed.  Any other input error is found by   *)
(* the producer of a round, whose stream then never ends normally; when    *)
(* the transport finds its error the operation ends in failure.            *)
(***************************************************************************)
C10_InputErrorsDetected ==
    /\ flags.op = "upload_dir" /\ ~fsys.openable =>
         round = 0 /\ nBuilt = 0 /\ pc \in {"start", "exit_fail"}
    /\ flags.op = "upload_dir" /\ flags.verbose /\ HasUnlistableDir =>
         round = 0 /\ nBuilt = 0 /\ pc \in {"start", "exit_fail"}
    /\ flags.op = "upload_dir" /\ (HasUnlistableDir \/ HasUnsupported) =>
         /\ pipeW # "eof" /\ sawEnd # "eof"
         /\ sawEnd = "err" /\ pc \in Terminal => pc = "exit_fail" /\ out.err \in WalkErrors

\* A verbose upload of a tree with a directory that cannot be listed, ended
\* by the display walk before any request.
C10_Witness ==
    /\ flags.op = "upload_dir" /\ flags.verbose /\ HasUnlistableDir
    /\ pc = "exit_fail" /\ out.err = "walk" /\ round = 0

(***************************************************************************)
(* C11.  When the tree of an upload has an object that is neither a file,  *)
(* a directory nor a symlink, the walk never gets past it and the archive  *)
(* has no entry for it; when the callback reaches it, archiveFS fails with *)
(* the error of that entry; and no stream of that tree is completed: the   *)
(* tar and zstd layers are never closed and the pipe never closed normally.*)
(***************************************************************************)
C11_UnsupportedNeverSkipped ==
    flags.op = "upload_dir" /\ stream.root = "root" =>
        /\ \A p \in NodePaths :
             fsys.tree[p].kind = "other" =>
                 /\ ~Visited(p)
                 /\ \A i \in 1..Len(written) : written[i].name # stream.prefix \o p
        /\ prod.err = "unsupported" =>
             /\ prod.state \in {"failed", "closedErr"}
             /\ Events[prod.pos + 1].kind = "other"
        /\ HasUnsupported =>
             /\ prod.state \notin {"tarClosed", "zstdClosed", "closed"}
             /\ pipeW # "eof" /\ sawEnd # "eof"

\* The walk has written the entry of a file and then failed at a device node;
\* the pipe is closed with that error.
C11_Witness ==
    /\ prod.state = "closedErr" /\ prod.err = "unsupported" /\ pipeW = "err"
    /\ Len(written) = 1 /\ written[1].typeflag = TypeReg
    /\ fsys.tree[PC].kind = "other"

\* The nodes of the tree, and a tree of readable files, directories and
\* symlinks only.
Present == {p \in NodePaths : fsys.tree[p].kind # "absent"}

CleanTree ==
    \A p \in Present : fsys.tree[p].kind \in {"file", "dir", "symlink"} /\ fsys.tree[p].ok

\* The walk of the latest stream is over and the tar layer is closed.
ArchiveComplete ==
    stream.root = "root" /\ prod.state \in {"tarClosed", "zstdClosed", "closed"}

\* Entry e is node p of the tree as it is: its name under the prefix, its
\* kind, and its bytes or its target.
EntryIsNode(e, p) ==
    LET node == fsys.tree[p]
    IN  CASE node.kind = "dir" ->
               /\ e.name = stream.prefix \o p \o <<"/">>
               /\ e.typeflag = TypeDir /\ e.size = 0 /\ e.linkname = <<>>
          [] node.kind = "file" ->
               /\ e.name = stream.prefix \o p
               /\ e.typeflag = TypeReg /\ e.linkname = <<>>
               /\ e.body = node.data /\ e.size = node.data.len
          [] node.kind = "symlink" ->
               /\ e.name = stream.prefix \o p
               /\ e.typeflag = TypeSymlink /\ e.linkname = node.target /\ e.size = 0
          [] OTHER -> FALSE

(***************************************************************************)
(* C12.  Without --incremental and with an empty needBlobs, the complete   *)
(* archive of a tree of readable files, directories and symlinks has       *)
(* exactly one entry for every node of the tree, with the bytes of a file  *)
(* and the target of a symlink, one directory entry before them for the    *)
(* prefix when there is one, and no other entry.                           *)
(***************************************************************************)
C12_RoundTrip ==
    ArchiveComplete /\ ~flags.incremental /\ stream.needBlobs = <<>> /\ CleanTree =>
        LET first == IF stream.prefix = <<>> THEN 1 ELSE 2
        IN  /\ Len(written) = Cardinality(Present) + first - 1
            /\ \A p \in Present :
                 Cardinality({i \in first..Len(written) : EntryIsNode(written[i], p)}) = 1
            /\ stream.prefix # <<>> =>
                 /\ written[1].typeflag = TypeDir /\ written[1].size = 0
                 /\ SubSeq(written[1].name, 1, Len(stream.prefix)) = stream.prefix

\* The complete archive of a directory, a file in it and a symlink.
C12_Witness ==
    /\ ArchiveComplete /\ ~flags.incremental /\ stream.needBlobs = <<>>
    /\ fsys.tree = TreeOf(DirNode(TRUE), FileNode(D256, TRUE), LinkNode(LinkTarget, TRUE))
    /\ Len(written) = 3

(***************************************************************************)
(* C13.  The body of a delete with --path is an archive of makeWhiteout    *)
(* with exactly one entry: of the character-device type, which is none of  *)
(* the types of a file, a directory or a symlink, with no body, and named  *)
(* by the path without the slashes around it and with one slash after it:  *)
(* "p/q/" for --path p/q and for --path /p/q/.                             *)
(***************************************************************************)
C13_WhiteoutEntry ==
    flags.op = "delete" /\ flags.path # <<>> /\ pc # "start" /\ nBuilt = 0 =>
        /\ request.body.kind = "whiteout"
        /\ Len(request.body.entries) = 1
        /\ LET e == request.body.entries[1]
           IN  /\ e.typeflag = TypeChar
               /\ e.typeflag \notin {TypeReg, TypeDir, TypeSymlink}
               /\ e.size = 0 /\ e.body = NoData /\ e.linkname = <<>>
               /\ e.name = <<"p", "/", "q", "/">>

\* The request of a delete with --path /p/q/ has been sent.
C13_Witness ==
    /\ flags.op = "delete" /\ flags.path = <<"/", "p", "/", "q", "/">>
    /\ pc = "sent" /\ nBuilt = 0
    /\ request.body.entries[1].name = <<"p", "/", "q", "/">>

\* The request of a delete as main builds it.
DeleteAsBuilt ==
    /\ flags.path = <<>> =>
         request.method = "DELETE" /\ request.body = NoBody
    /\ flags.path # <<>> =>
         /\ request.method = "PATCH"
         /\ request.header.ContentType = "application/x-tar"
         /\ request.body.kind = "whiteout"
         /\ request.body.entries = <<Header(pathPrefix, TypeChar, <<>>, NoData)>>

(***************************************************************************)
(* C14 as stated.  A delete hands one request to the transport: DELETE     *)
(* with no body without --path, PATCH with the whiteout archive and        *)
(* Content-Type application/x-tar with --path; it builds no compressed     *)
(* stream and starts no walk.                                              *)
(***************************************************************************)
C14_DeleteSendsOneRequest ==
    flags.op = "delete" /\ pc # "start" =>
        /\ DeleteAsBuilt
        /\ round <= 1
        /\ nBuilt = 0 /\ prod.state \notin {"walk", "failed", "tarClosed", "zstdClosed"}

\* The entries the producer has written that the transport has not read.
Ahead == Len(written) - consumed

(***************************************************************************)
(* C15 as stated.  The producer is never more than one entry ahead of what *)
(* the transport has read.                                                 *)
(***************************************************************************)
C15_OneEntryAhead == Ahead <= 1

(***************************************************************************)
(* C15.  The producer is never further ahead of the transport than the     *)
(* compression layer holds back, and the transport never reads what was    *)
(* not written; a producer that far ahead writes nothing more until the    *)
(* transport has read.                                                     *)
(***************************************************************************)
C15_BoundedAhead ==
    /\ [](0 <= Ahead /\ Ahead <= ZstdWindow)
    /\ [][ Ahead = ZstdWindow /\ Len(written') > Len(written) => consumed' > consumed ]_vars
    /\ [][ Len(written') > Len(written) => Len(written') = Len(written) + 1 ]_vars

\* The producer has written all the compression layer holds back, more than
\* one entry, before the transport has read any of it.
C15_Witness ==
    /\ pc = "sent" /\ prod.state = "walk"
    /\ consumed = 0 /\ Ahead = ZstdWindow /\ Ahead >= 2

\* Name n comes before name m in a walk: n is the start of m, or at the
\* first place where they differ n has the lower character, "/" being lower
\* than every character of a file name.
Before(n, m) ==
    \E k \in 1..Len(m) :
        /\ \A j \in 1..(k - 1) : j <= Len(n) /\ n[j] = m[j]
        /\ \/ k = Len(n) + 1
           \/ k <= Len(n) /\ CharRank(n[k]) < CharRank(m[k])

\* The archive of the tree under the prefix, the set of hashes and the flag of
\* the latest stream.
ArchiveOfRound ==
    archiveFrom(fsys.tree, WalkDir(fsys.tree), stream.prefix, MustEmbedSet, flags.incremental)

ProducerStep ==
    \/ ProducerFails \/ ProducerSkips \/ ProducerWrites
    \/ ProducerCloseTar \/ ProducerClose \/ ProducerCloseWithError

MainStep ==
    \/ OpenRootFails \/ DisplayFails
    \/ BuildUploadDir \/ BuildUploadGit \/ BuildDelete \/ BuildDebugManifest
    \/ DoSend \/ HandleManifest \/ Resubmit \/ Accept \/ Reject

(***************************************************************************)
(* C17.  A step of the producer changes only its own position, the entries *)
(* it has written and its end of the pipe, and nothing main or the         *)
(* transport reads besides; while a producer runs, no step changes what it *)
(* reads (the root, the prefix, needBlobs, the flags, the tree); and a new *)
(* stream starts from a new pipe and a new walk, with nothing of the       *)
(* stream before it but main's root and prefix and the needBlobs just      *)
(* read from the response.                                                 *)
(***************************************************************************)
C17_NoSharedState ==
    /\ [][ ProducerStep =>
             UNCHANGED <<flags, fsys, pc, uploadDir, request, nBuilt, round, stream,
                         consumed, sawEnd, response, out, firstReq>> ]_vars
    /\ [][ Running /\ stream.root = "root" =>
             UNCHANGED <<stream, flags, fsys, uploadDir>> ]_vars
    /\ [][ Running /\ stream.root = "root" /\ MainStep =>
             UNCHANGED <<prod, written, pipeW>> ]_vars
    /\ [][ nBuilt' # nBuilt =>
             /\ nBuilt' = nBuilt + 1
             /\ prod' = [state |-> "walk", pos |-> 0, err |-> "none"]
             /\ written' = <<>> /\ consumed' = 0
             /\ pipeW' = "open" /\ sawEnd' = "no"
             /\ stream'.root = uploadDir' /\ stream'.prefix = pathPrefix
             /\ stream'.needBlobs # <<>> =>
                  /\ pc = "response"
                  /\ {stream'.needBlobs[i] : i \in 1..Len(stream'.needBlobs)} = ResponseLines
           ]_vars

\* Main waits in Do for the second round while the producer of that round
\* walks and the goroutine of the first round has not ended.
C17_Witness ==
    /\ pc = "sent" /\ nBuilt = 2 /\ orphans = 1
    /\ prod.state = "walk" /\ prod.pos >= 1 /\ stream.needBlobs # <<>>

\* Entry e has the body of a file or stands for one.
IsFileEntry(e) ==
    \/ e.typeflag = TypeReg
    \/ HasBlobTarget(e) /\ ~ForLink(e)

\* No readable file of the tree has hash h.
Unsatisfiable(h) == \A p \in ReadableFiles : gitBlobSHA256(fsys.tree[p].data) # h

(***************************************************************************)
(* C18.  When the tree changes between rounds, every entry of a round with *)
(* a body or a placeholder is a file the walk of that round has reached,   *)
(* with the bytes or the hash that file has now; a requested hash that no  *)
(* file has now appears in no entry; the archive has no more entries than  *)
(* the tree has nodes; and the walk fails only on a node of the tree that  *)
(* cannot be read or added, never on such a hash.  The entry of a symbolic *)
(* link of the tree is not taken for a placeholder, whatever its target.   *)
(***************************************************************************)
C18_UnsatisfiableOmitted ==
    InRound =>
        /\ \A i \in 1..Len(written) :
             IsFileEntry(written[i]) =>
                \E p \in ReadableFiles :
                    /\ Visited(p) /\ written[i].name = stream.prefix \o p
                    /\ \/ IsEmbedded(written[i], fsys.tree[p].data)
                       \/ IsPlaceholder(written[i], fsys.tree[p].data)
        /\ \A h \in MustEmbedSet :
             Unsatisfiable(h) =>
                \A i \in 1..Len(written) :
                    /\ ~ForLink(written[i]) => written[i].linkname # <<GitBlobs>> \o h
                    /\ written[i].typeflag = TypeReg => gitBlobSHA256(written[i].body) # h
        /\ Len(written) <= Cardinality(Present) + (IF stream.prefix = <<>> THEN 0 ELSE 1)
        /\ walkFailed => ~CleanTree

\* The server asked for the content of c; c now has the former content of
\* a/b, and the second round has completed an archive without that hash.
C18_Witness ==
    /\ InRound /\ nBuilt = 2 /\ flags.incremental
    /\ MustEmbedSet = {HashB} /\ fsys.tree = TreeMoved
    /\ prod.state = "closed" /\ pipeW = "eof" /\ ~walkFailed
    /\ Len(written) = 2 /\ IsPlaceholder(written[2], D257a)

\* The list without the later occurrences of its elements.
RECURSIVE Dedup(_)
Dedup(list) ==
    IF list = <<>> THEN <<>>
    ELSE LET front == Dedup(SubSeq(list, 1, Len(list) - 1))
             last  == list[Len(list)]
         IN  IF \E i \in 1..Len(front) : front[i] = last THEN front
             ELSE Append(front, last)

HasDuplicate(list) == Len(Dedup(list)) < Len(list)

(***************************************************************************)
(* C19.  In every round the entries written so far are the start of the    *)
(* archive of the same tree for needBlobs with its duplicates removed.  A  *)
(* response that asks for the hashes of the round before is handled as any *)
(* other: main's next step starts a round with these hashes and the same   *)
(* method, URL and headers; the run neither fails nor ends on it.          *)
(***************************************************************************)
C19_DuplicatesTolerated ==
    /\ [](InRound =>
            LET archive == archiveFrom(fsys.tree, WalkDir(fsys.tree), stream.prefix,
                                       RequestedSet(Dedup(stream.needBlobs)),
                                       flags.incremental)
            IN  /\ Len(written) <= Len(archive)
                /\ written = SubSeq(archive, 1, Len(written)))
    /\ [][ /\ pc = "response" /\ pc' # pc
           /\ IsUnresolved(response) /\ flags.op = "upload_dir"
           /\ nBuilt >= 2 /\ ResponseLines = MustEmbedSet
           => /\ pc' = "loop" /\ nBuilt' = nBuilt + 1
              /\ MustEmbedSet' = MustEmbedSet
              /\ HeadOf(request') = HeadOf(request)
              /\ out' = out ]_vars

\* A round for a list with the same hash twice has embedded the file with
\* that hash and completed its archive; the round before asked for it too.
C19_Witness ==
    /\ InRound /\ nBuilt = 3 /\ flags.incremental
    /\ stream.needBlobs = <<HashA, HashA>> /\ HasDuplicate(stream.needBlobs)
    /\ RequestedSet(prevNeed) = {HashA}
    /\ prod.state = "closed" /\ pipeW = "eof"
    /\ \E i \in 1..Len(written) : IsEmbedded(written[i], D257a)

\* What an entry says of the content of its file: everything but the name.
ContentOf(e) == [typeflag |-> e.typeflag, linkname |-> e.linkname,
                 size |-> e.size, body |-> e.body]

(***************************************************************************)
(* C20.  In every round, two regular files with the same bytes that the    *)
(* walk has reached have entries that differ in the name alone, whatever   *)
(* their paths and permission bits: both have the body, or both are        *)
(* placeholders with the same target, which is /git/blobs/ and the hash    *)
(* of the bytes.                                                           *)
(***************************************************************************)
C20_ElisionByBytesOnly ==
    InRound =>
        \A p, q \in ReadableFiles :
            Visited(p) /\ Visited(q) /\ fsys.tree[p].data = fsys.tree[q].data =>
                \A i \in EntriesFor(p), j \in EntriesFor(q) :
                    /\ ContentOf(written[i]) = ContentOf(written[j])
                    /\ written[i].typeflag = TypeSymlink =>
                           written[i].linkname
                               = <<GitBlobs>> \o gitBlobSHA256(fsys.tree[p].data)

\* An executable file in a directory and a plain file at the top have the
\* same bytes, and both are placeholders.
C20_Witness ==
    /\ InRound /\ flags.incremental /\ fsys.tree = TreeSameBytes
    /\ Visited(PAB) /\ Visited(PC)
    /\ fsys.tree[PAB].perm # fsys.tree[PC].perm
    /\ \E i \in EntriesFor(PAB), j \in EntriesFor(PC) :
          /\ IsPlaceholder(written[i], D257a)
          /\ IsPlaceholder(written[j], D257a)

\* The readable symbolic links of the tree.
ReadableLinks == {p \in NodePaths : fsys.tree[p].kind = "symlink" /\ fsys.tree[p].ok}

\* Name n lies below the directory named d.
Below(n, d) == Len(n) > Len(d) + 1 /\ SubSeq(n, 1, Len(d) + 1) = d \o <<Slash>>

(***************************************************************************)
(* C21.  In every round, a symbolic link the walk has reached has exactly  *)
(* one entry: a symlink whose target is the string of the link as it is,   *)
(* of size 0 and without a body, also when the link leads to a file or a   *)
(* directory of the tree; and no entry has a name below the link's, or     *)
(* the link's name with a slash.                                           *)
(***************************************************************************)
C21_SymlinksNotFollowed ==
    InRound =>
        \A p \in ReadableLinks :
            /\ Visited(p) =>
                 /\ Cardinality(EntriesFor(p)) = 1
                 /\ \A i \in EntriesFor(p) :
                        /\ written[i].typeflag = TypeSymlink
                        /\ written[i].linkname = fsys.tree[p].target
                        /\ written[i].size = 0 /\ written[i].body = NoData
            /\ \A i \in 1..Len(written) :
                 /\ ~Below(written[i].name, stream.prefix \o p)
                 /\ written[i].name # stream.prefix \o p \o <<Slash>>

\* The link c leads to the directory a, which has the file a/b: the archive
\* is complete with a/, a/b and the link.
C21_Witness ==
    /\ InRound /\ fsys.tree = TreeLinkToDir
    /\ prod.state = "closed" /\ Len(written) = 3
    /\ \E i \in EntriesFor(PC) :
          written[i].typeflag = TypeSymlink /\ written[i].linkname = PA

\* How far the goroutine of the latest stream is with its closes.
CloseRank ==
    CASE prod.state = "walk"       -> 0
      [] prod.state = "tarClosed"  -> 1
      [] prod.state = "zstdClosed" -> 2
      [] prod.state = "closed"     -> 3
      [] OTHER                     -> 4

(***************************************************************************)
(* C22.  The goroutine of a stream closes the tar writer only after the    *)
(* callback of the last entry of the walk has returned, and writes no      *)
(* entry afterwards; it closes the compression layer only after the tar    *)
(* writer; and it closes the pipe without an error only after both, from   *)
(* the state in which both are closed.  A pipe closed without an error is  *)
(* the pipe of a walk that did not fail.                                   *)
(***************************************************************************)
C22_CloseOrder ==
    /\ [][ prod'.state = "tarClosed" /\ prod.state # "tarClosed"
           => /\ prod.state = "walk" /\ prod.pos = Len(Events)
              /\ written' = written /\ pipeW' = "open" ]_vars
    /\ [][ prod'.state = "zstdClosed" /\ prod.state # "zstdClosed"
           => prod.state = "tarClosed" /\ written' = written /\ pipeW' = "open" ]_vars
    /\ [][ prod'.state = "closed" /\ prod.state # "closed"
           => prod.state = "zstdClosed" /\ written' = written /\ pipeW' = "eof" ]_vars
    /\ [][ pipeW' = "eof" /\ pipeW # "eof"
           => prod.state = "zstdClosed" /\ prod'.state = "closed" ]_vars
    /\ [][ (CloseRank \in 1..3) => Len(written') <= Len(written) ]_vars
    /\ [][ (CloseRank \in 0..2) /\ prod' # prod /\ nBuilt' = nBuilt /\ CloseRank' \in 0..3
           => CloseRank' \in {CloseRank, CloseRank + 1} ]_vars
    /\ [](pipeW = "eof" => ~walkFailed /\ ~Running)

\* All three entries of a tree are written and read, and the pipe is closed
\* at the end of the stream.
C22_Witness ==
    /\ InRound /\ fsys.tree = TreeTwoBig
    /\ prod.state = "closed" /\ pipeW = "eof"
    /\ prod.pos = Len(Events) /\ Len(written) = 3 /\ consumed = 3

\* The path of a walk event relative to the root: empty for the root itself.
RelativePath(ev) == IF ev.name = RootPath THEN <<>> ELSE ev.name

EndsWithSlash(n) == n # <<>> /\ n[Len(n)] = Slash

(***************************************************************************)
(* C23.  In every round, every entry written is that of an event of the    *)
(* walk which the callback has handled, and its name is the prefix of the  *)
(* stream, then the path of the event relative to the root (nothing for    *)
(* the root itself), then a slash if the event is a directory and nothing  *)
(* otherwise.  An entry is a directory entry exactly if its event is a     *)
(* directory, and exactly then does its name end with a slash.             *)
(***************************************************************************)
C23_EntryNames ==
    InRound =>
        LET events == Events
        IN  \A i \in 1..Len(written) :
                /\ \E k \in 1..prod.pos :
                      /\ ~events[k].err
                      /\ written[i].name
                           = stream.prefix \o RelativePath(events[k])
                               \o (IF events[k].kind = "dir" THEN <<Slash>> ELSE <<>>)
                      /\ written[i].typeflag = TypeDir <=> events[k].kind = "dir"
                /\ EndsWithSlash(written[i].name) <=> written[i].typeflag = TypeDir

\* Under the prefix p/q/, a directory and the file in it have been written.
C23_Witness ==
    /\ InRound /\ stream.prefix = <<"p", "/", "q", "/">> /\ fsys.tree = TreeTwoBig
    /\ Len(written) >= 3
    /\ written[2].name = <<"p", "/", "q", "/", "a", "/">> /\ written[2].typeflag = TypeDir
    /\ written[3].name = <<"p", "/", "q", "/", "a", "/", "b">>
    /\ written[3].typeflag = TypeReg

\* The entries of the latest stream written for the root of the walk: those
\* whose name is not that of a node under the prefix.
RootEntries ==
    {i \in 1..Len(written) :
        \A p \in NodePaths : written[i].name \notin {stream.prefix \o p,
                                                     stream.prefix \o p \o <<Slash>>}}

(***************************************************************************)
(* C24.  In every round, once the callback has handled the root of the     *)
(* walk: with an empty prefix it has written nothing for it, and every     *)
(* entry is that of a node of the tree; with a prefix it has written one   *)
(* entry for it, the first of the archive, which is a directory entry of   *)
(* size 0 without a body whose name is the prefix directory, up to         *)
(* slashes at the end.                                                     *)
(***************************************************************************)
C24_RootEntry ==
    InRound /\ prod.pos >= 1 =>
        IF stream.prefix = <<>>
        THEN RootEntries = {} /\ Len(written) = prod.pos - 1
        ELSE /\ RootEntries = {1} /\ Len(written) = prod.pos
             /\ written[1].typeflag = TypeDir
             /\ written[1].size = 0 /\ written[1].body = NoData
             /\ written[1].linkname = <<>>
             /\ TrimRight(written[1].name) = TrimRight(stream.prefix)

\* The complete archive of a tree of three nodes under the prefix p/q/ has
\* four entries, the first for p/q.
C24_Witness ==
    /\ InRound /\ stream.prefix = <<"p", "/", "q", "/">> /\ fsys.tree = TreeTwoBig
    /\ prod.state = "closed" /\ Len(written) = 4
    /\ TrimRight(written[1].name) = <<"p", "/", "q">>

\* The number of bytes written after the header of entry e.
BodyBytes(e) == e.body.len

(***************************************************************************)
(* C25.  In every round, every entry written declares as its size the      *)
(* number of bytes of its body.  Directory entries and symlink entries,    *)
(* placeholders among them, declare 0 and have no body; a regular file     *)
(* entry is that of a readable file of the tree and has the length and     *)
(* the bytes of that file.                                                 *)
(***************************************************************************)
C25_SizeIsBodyLength ==
    InRound =>
        \A i \in 1..Len(written) :
            /\ written[i].size = BodyBytes(written[i])
            /\ written[i].typeflag \in {TypeDir, TypeSymlink} =>
                   written[i].size = 0 /\ written[i].body = NoData
            /\ written[i].typeflag = TypeReg =>
                   \E p \in ReadableFiles :
                       /\ written[i].name = stream.prefix \o p
                       /\ written[i].size = fsys.tree[p].data.len
                       /\ written[i].body = fsys.tree[p].data

\* A directory, a placeholder for a file of 257 bytes and a file of 256 bytes
\* with its body.
C25_Witness ==
    /\ InRound /\ flags.incremental /\ Len(written) = 3
    /\ fsys.tree = TreeOf(DirNode(TRUE), FileNode(D257a, TRUE), FileNode(D256, TRUE))
    /\ written[1].typeflag = TypeDir
    /\ IsPlaceholder(written[2], D257a) /\ written[2].size = 0
    /\ written[3].typeflag = TypeReg /\ written[3].size = 256
    /\ BodyBytes(written[3]) = 256

(***************************************************************************)
(* C26 as stated.  A stream is built for a directory upload only, over an  *)
(* opened root: no other operation starts a walk, and main never dies of   *)
(* a goroutine that walks the file system of an unset root.                *)
(***************************************************************************)
C26_ResubmitOnlyForUploadDir ==
    /\ stream # NoStream => flags.op = "upload_dir" /\ stream.root = "root"
    /\ flags.op # "upload_dir" => nBuilt = 0 /\ prod.state \in {"idle", "finished", "gone"}
    /\ pc # "crashed"

\* The goroutine of the latest stream has closed its end of the pipe.
PipeClosed == prod.state \in {"closed", "closedErr"} /\ pipeW # "open"

ActiveProducers == (IF Running THEN 1 ELSE 0) + orphans

(***************************************************************************)
(* C28 as stated.  At most one goroutine of a stream is active at a time.  *)
(***************************************************************************)
C28_OneProducer == ActiveProducers <= 1

(***************************************************************************)
(* C28.  A new stream is started only when Do has returned for the one     *)
(* before, whose goroutine has then ended or has been left behind; one is  *)
(* left behind only by a response that comes before the transport has     *)
(* read the body to its end, and is then counted, never lost.  While no    *)
(* response has come early, at most one goroutine is active; in general    *)
(* there are at most as many as streams were started.                      *)
(***************************************************************************)
C28_ProducersPerRound ==
    /\ [][ nBuilt' # nBuilt => ~Running /\ pc \in {"start", "response"} ]_vars
    /\ [][ orphans' > orphans =>
             /\ orphans' = orphans + 1
             /\ pc = "sent" /\ pc' = "response" /\ sawEnd = "no" /\ Running ]_vars
    /\ [][ Running /\ pc = "sent" /\ pc' = "response" => orphans' = orphans + 1 ]_vars
    /\ [](ActiveProducers <= nBuilt)
    /\ [](orphans <= round)

\* The first response came early: the goroutine of the first stream is still
\* there while the one of the second stream walks.
C28_Witness ==
    /\ InRound /\ nBuilt = 2 /\ round = 1
    /\ orphans = 1 /\ prod.state = "walk" /\ prod.pos >= 1
    /\ ActiveProducers = 2

\* String s is p and a slash, for a p that is not empty and has no slash at
\* its start or its end.
WellFormedPrefix(s) ==
    /\ Len(s) >= 2 /\ s[Len(s)] = Slash
    /\ s[1] # Slash /\ s[Len(s) - 1] # Slash

(***************************************************************************)
(* C29 as stated.  For every value of --path, the prefix main derives is   *)
(* empty exactly if the value is empty, and otherwise it is p and a slash  *)
(* for a non-empty p without a slash at its start or its end: it is not    *)
(* the single slash and does not start with a slash.  The prefix of a      *)
(* stream and the name of a whiteout are that prefix.                      *)
(***************************************************************************)
C29_PrefixForm ==
    /\ pathPrefix = <<>> <=> flags.path = <<>>
    /\ flags.path # <<>> =>
         /\ WellFormedPrefix(pathPrefix)
         /\ pathPrefix # <<Slash>> /\ pathPrefix[1] # Slash
    /\ stream.root = "root" => stream.prefix = <<>> \/ WellFormedPrefix(stream.prefix)
    /\ request.body.kind = "whiteout" =>
         WellFormedPrefix(request.body.entries[1].name)

\* Name n has an empty segment: two slashes in a row.
HasEmptySegment(n) == \E k \in 1..Len(n) - 1 : n[k] = Slash /\ n[k + 1] = Slash

(***************************************************************************)
(* C30 as stated.  In every round of a stream whose prefix is empty or is  *)
(* p and a slash, for a p without a slash at its start or end and without  *)
(* an empty segment, no entry written has a name that starts with a slash  *)
(* or has an empty segment, the entry of the prefix directory included.    *)
(***************************************************************************)
C30_NoEmptySegments ==
    /\ InRound
    /\ \/ stream.prefix = <<>>
       \/ WellFormedPrefix(stream.prefix) /\ ~HasEmptySegment(stream.prefix)
    => \A i \in 1..Len(written) :
           /\ written[i].name # <<>>
           /\ written[i].name[1] # Slash
           /\ ~HasEmptySegment(written[i].name)

(***************************************************************************)
(* C31.  In every round of an incremental upload, every entry that is a    *)
(* symlink with a target under /git/blobs/ has the name of a regular file  *)
(* the walk has reached, and its target is /git/blobs/ and the hash of     *)
(* the bytes of that file: no symbolic link of the tree has such an entry. *)
(***************************************************************************)
C31_PlaceholderMeansFile ==
    InRound /\ flags.incremental =>
        \A i \in 1..Len(written) :
            HasBlobTarget(written[i]) =>
                \E p \in ReadableFiles :
                    /\ Visited(p)
                    /\ written[i].name = stream.prefix \o p
                    /\ IsPlaceholder(written[i], fsys.tree[p].data)

\* Name n is that of something inside the directory whose entry is named d.
Inside(n, d) == Len(n) > Len(d) /\ SubSeq(n, 1, Len(d)) = d

(***************************************************************************)
(* C32.  In every round the entry of a directory comes before the entries  *)
(* of everything inside it: an entry whose name continues the name of a    *)
(* directory entry comes after that entry; every entry of a path in a      *)
(* directory of the tree has the entry of that directory before it; and    *)
(* with a prefix, the first entry is the directory entry of the prefix,    *)
(* written once, and every later name continues the prefix.                *)
(***************************************************************************)
C32_DirectoryFirst ==
    InRound =>
        /\ \A i, j \in 1..Len(written) :
             written[j].typeflag = TypeDir /\ Inside(written[i].name, written[j].name)
                 => j < i
        /\ \A p \in NodePaths :
             ParentOf(p) # RootPath =>
                 \A i \in EntriesFor(p) :
                     \E j \in 1..(i - 1) :
                         /\ written[j].typeflag = TypeDir
                         /\ written[j].name = stream.prefix \o ParentOf(p) \o <<Slash>>
        /\ stream.prefix # <<>> /\ written # <<>> =>
             /\ written[1].typeflag = TypeDir
             /\ written[1].name = stream.prefix \o <<Slash>>
             /\ \A i \in 2..Len(written) :
                    /\ written[i].name # written[1].name
                    /\ Inside(written[i].name, stream.prefix)

\* The complete archive of TreeTwoBig under the prefix p/q/: the entry of the
\* prefix, the directory a, the file a/b in it, and the file c.
C32_Witness ==
    /\ InRound /\ stream.prefix = <<"p", "/", "q", "/">> /\ fsys.tree = TreeTwoBig
    /\ prod.state = "closed" /\ Len(written) = 4
    /\ written[2].typeflag = TypeDir
    /\ written[2].name = stream.prefix \o PA \o <<Slash>>
    /\ written[3].name = stream.prefix \o PAB

====
